---------------------------- MODULE Spec2Model ----------------------------
(***************************************************************************)
(* State-machine model of the collaborative notes backend                  *)
(* (src/backend/main.py, src/backend/db.py): the Socket.IO handlers        *)
(* connect / join_note / yjs_update / disconnect, the in-memory presence   *)
(* registries, and the notes / note_versions tables with the HTTP routes   *)
(* that read and write them.                                               *)
(*                                                                         *)
(* Scheduling: one asyncio event loop.  A handler runs without interruption *)
(* up to an `await` that really suspends; the database calls are blocking  *)
(* calls, so the only suspension points are the `await sio.emit(...)`      *)
(* calls.  An emit picks its recipients when it is called.  Hence every    *)
(* handler is one action, except join_note, which is two: up to the emit   *)
(* of load_note (join_note) and from there on (join_note_notify).          *)
(*                                                                         *)
(* Python values: None is the string NoneVal, a missing dict key is Missing,*)
(* a value that is not a str is NotAStr.  A str is any other string.       *)
(***************************************************************************)
EXTENDS Integers, Sequences, FiniteSets, TLC

(* ------------------------------ bounds --------------------------------- *)

\* Number of Socket.IO connections (sids) that ever connect.
NumSids == 2
\* Number of rows ever inserted into note_versions.
MaxVersions == 2
\* Last value of the wall clock.
MaxTime == 2
\* Rows ever inserted while the realtime side is explored.
MaxRoomVersions == 1
\* join_note tasks of one connection suspended at the same time.
MaxPendingJoins == 1
\* Rows ever inserted while restores over a log of several updates are explored.
MaxRestoreVersions == 3

(* ------------------------------ inputs --------------------------------- *)

NoneVal == "<None>"
Missing == "<missing>"
NotAStr == "<not-a-str>"

Sids == 1..NumSids
NoteIds == {"n1", "n2"}
Payloads == {"AAA", "BBB"}
Titles == {"t1", "t2"}
GoodTokens == {"tokA", "tokB"}
Tokens == GoodTokens \cup {"tokBad"}
VersionIds == 1..MaxVersions

\* firebase_auth.verify_id_token: the decoded token of a token it accepts.
verify_id_token(token) ==
    IF token = "tokA" THEN [uid |-> "u1", email |-> "a@x"]
    ELSE [uid |-> "u2", email |-> "b@x"]

\* Mutant of token_rejected: verification accepts every token.
token_rejected_never(token) == FALSE

\* firebase_auth.verify_id_token raises for the token.
token_rejected(token) == token \notin GoodTokens

\* Python truthiness of an optional string.
Truthy(x) == x \notin {NoneVal, Missing, ""}
\* Mutant of IsStr: every value passes for a str.
IsStr_any(x) == TRUE

\* isinstance(x, str)
IsStr(x) == x \notin {NoneVal, Missing, NotAStr}

(* ------------------------------ state ---------------------------------- *)

VARIABLES
    conn,           \* sid -> "new" | "connected" | "closed" (Socket.IO's view)
    rooms,          \* sid -> set of note ids whose room note_<id> the sid is in
    active_users,   \* dict note_id -> set of user ids
    user_emails,    \* dict user_id -> email
    sid_to_note,    \* dict sid -> note_id
    sid_to_user,    \* dict sid -> user_id
    pending,        \* join_note tasks suspended at the emit of load_note
    notes,          \* table notes: dict id -> [title, updated_at]
    created,        \* note ids ever given out by uuid4
    note_versions,  \* table note_versions: set of rows
    next_id,        \* rows inserted so far (row ids stand for uuid4 values)
    now,            \* datetime.utcnow()
    emitted,        \* the messages the last step emitted
    last,           \* the event the last step handled and its outcome
    received,       \* sid -> the <<note_id, update>> pairs sent to it so far
    sent            \* sid -> the <<note_id, update>> pairs persisted for it

registry == <<active_users, user_emails, sid_to_note, sid_to_user>>
sockets == <<conn, rooms>>
database == <<notes, created, note_versions, next_id>>
history == <<received, sent>>
vars == <<conn, rooms, active_users, user_emails, sid_to_note, sid_to_user,
          pending, notes, created, note_versions, next_id, now, emitted, last,
          received, sent>>

(* ------------------------------ dicts ---------------------------------- *)

\* d.get(k, default)
DictGet(d, k, default) == IF k \in DOMAIN d THEN d[k] ELSE default
\* d[k] = v
DictSet(d, k, v) == [x \in DOMAIN d \cup {k} |-> IF x = k THEN v ELSE d[x]]
\* Mutant of DictDel: the key is read and left in the dict.
DictDel_kept(d, k) == d

\* del d[k] / d.pop(k, None)
DictDel(d, k) == [x \in DOMAIN d \ {k} |-> d[x]]
EmptyDict == [x \in {} |-> NoneVal]

(* --------------------------- json encoding ----------------------------- *)

\* json.dumps of a dict literal: the text lists the keys in the literal's
\* order; it is modelled as the sequence of <<key, value>> pairs.
json_dumps(keys, d) == [i \in 1..Len(keys) |-> <<keys[i], d[keys[i]]>>]

\* _parse_version_delta: json.loads of a delta text, as a dict.
parse_version_delta(delta_raw) ==
    [k \in {delta_raw[i][1] : i \in 1..Len(delta_raw)} |->
        delta_raw[CHOOSE i \in 1..Len(delta_raw) : delta_raw[i][1] = k][2]]

(* ------------------------------ queries -------------------------------- *)

RECURSIVE Perms(_)
\* All sequences that list each element of set S once.
Perms(S) ==
    IF S = {} THEN {<<>>}
    ELSE UNION {{<<x>> \o p : p \in Perms(S \ {x})} : x \in S}

\* db.query(NoteVersion).filter(NoteVersion.note_id == note_id)
versions_of(note_id) == {v \in note_versions : v.note_id = note_id}

\* .order_by(NoteVersion.timestamp.asc()).all(): the query names no second
\* sort key, so rows with equal timestamps come in an order the database
\* chooses; every order it may return is a result.
order_by_timestamp_asc(rows) ==
    {s \in Perms(rows) :
        \A i \in 1..(Len(s) - 1) : s[i].timestamp <= s[i + 1].timestamp}

\* .order_by(NoteVersion.timestamp.desc())
order_by_timestamp_desc(rows) ==
    {s \in Perms(rows) :
        \A i \in 1..(Len(s) - 1) : s[i].timestamp >= s[i + 1].timestamp}

\* .limit(n).all()
Limit(s, n) == SubSeq(s, 1, IF n < Len(s) THEN n ELSE Len(s))

RECURSIVE extract_from(_)
\* The loop of _extract_yjs_updates over the rows in order; it yields the
\* rows whose update it appends.
extract_from(versions) ==
    IF versions = <<>> THEN <<>>
    ELSE LET payload == parse_version_delta(Head(versions).delta)
         IN  (IF DictGet(payload, "kind", NoneVal) = "yjs_update"
                 /\ Truthy(DictGet(payload, "update", NoneVal))
              THEN <<Head(versions)>> ELSE <<>>)
             \o extract_from(Tail(versions))

\* Mutant of extract_yjs_updates: the replay is empty.
extract_nothing(versions) == <<>>

\* _extract_yjs_updates: the list of update strings.
extract_yjs_updates(versions) ==
    LET kept == extract_from(versions)
    IN  [i \in 1..Len(kept) |-> parse_version_delta(kept[i].delta)["update"]]

\* The row ids behind extract_yjs_updates(versions), position by position.
extract_ids(versions) ==
    LET kept == extract_from(versions)
    IN  [i \in 1..Len(kept) |-> kept[i].id]

\* Mutant of snapshot_rows: the query has no upper bound on the timestamp.
snapshot_rows_all(note_id, target_version) == versions_of(note_id)

\* The rows the snapshot route selects for a target row.
snapshot_rows(note_id, target_version) ==
    {v \in versions_of(note_id) : v.timestamp <= target_version.timestamp}

(* ------------------------------ sockets -------------------------------- *)

\* Mutant of enter_room: the call has no effect (the sid joins no room).
enter_room_lost(sid, note_id) == rooms

\* sio.enter_room(sid, f"note_{note_id}")
enter_room(sid, note_id) == [rooms EXCEPT ![sid] = @ \cup {note_id}]

\* The participants of room note_<note_id>.
room_members(note_id) == {s \in Sids : note_id \in rooms[s]}

\* Mutant of room_skip_sid: the emit is made without skip_sid.
room_no_skip(note_id, sid) == room_members(note_id)

\* Mutant of room_skip_sid: the emit goes to every connection but the sender.
room_everyone(note_id, sid) == Sids \ {sid}

\* Recipients of sio.emit(..., room=f"note_{note_id}", skip_sid=sid)
room_skip_sid(note_id, sid) == room_members(note_id) \ {sid}

\* {uid: user_emails.get(uid, uid) for uid in active_users[note_id]}
user_names_of(au, ue, note_id) ==
    [uid \in au[note_id] |-> DictGet(ue, uid, uid)]

\* One emitted message; the fields an event does not carry are empty.
Msg(event, to, note_id, user_id, update, members, names, replay, text) ==
    [event |-> event, to |-> to, note_id |-> note_id, user_id |-> user_id,
     update |-> update, active_users |-> members, user_names |-> names,
     yjs_updates |-> replay, text |-> text]

ErrorMsg(sid, text) ==
    Msg("error", {sid}, NoneVal, NoneVal, NoneVal, {}, EmptyDict, <<>>, text)

YjsMsg(to, note_id, update) ==
    Msg("yjs_update", to, note_id, NoneVal, update, {}, EmptyDict, <<>>, NoneVal)

\* What the last step handled.  result is the list a read returned and
\* result_ids the ids of the rows behind it, position by position.
Event(op, sid, note_id, update, version_id, outcome, result, result_ids) ==
    [op |-> op, sid |-> sid, note_id |-> note_id, update |-> update,
     version_id |-> version_id, outcome |-> outcome, result |-> result,
     result_ids |-> result_ids, token |-> NoneVal, limit |-> 0,
     user_id |-> NoneVal]

\* A join_note event: also the token it carried.
JoinEvent(sid, note_id, token, outcome, result, result_ids) ==
    [Event("join_note", sid, note_id, NoneVal, 0, outcome, result, result_ids)
        EXCEPT !.token = token]

NoEvent(op) == Event(op, 0, NoneVal, NoneVal, 0, "ok", <<>>, <<>>)

(* ------------------------------- Init ---------------------------------- *)

Init ==
    /\ conn = [s \in Sids |-> "new"]
    /\ rooms = [s \in Sids |-> {}]
    /\ active_users = EmptyDict
    /\ user_emails = EmptyDict
    /\ sid_to_note = EmptyDict
    /\ sid_to_user = EmptyDict
    /\ pending = {}
    /\ notes = [n \in {"n1"} |-> [title |-> "t1", updated_at |-> 0]]
    /\ created = {"n1"}
    /\ note_versions = {}
    /\ next_id = 0
    /\ now = 0
    /\ emitted = {}
    /\ last = NoEvent("init")
    /\ received = [s \in Sids |-> {}]
    /\ sent = [s \in Sids |-> {}]

(* --------------------------- Socket.IO events -------------------------- *)

\* connect(sid)
connect(sid) ==
    /\ conn[sid] = "new"
    /\ conn' = [conn EXCEPT ![sid] = "connected"]
    /\ emitted' = {Msg("connect_response", {sid}, NoneVal, NoneVal, NoneVal,
                       {}, EmptyDict, <<>>, "Connected to server")}
    /\ last' = Event("connect", sid, NoneVal, NoneVal, 0, "ok", <<>>, <<>>)
    /\ UNCHANGED <<rooms, registry, pending, database, now>>

\* Mutant of join_rows: the replay is filtered by note.updated_at.
join_rows_since_update(note_id) ==
    {v \in versions_of(note_id) : v.timestamp >= notes[note_id].updated_at}

\* The rows join_note replays: all rows of the note.
join_rows(note_id) == versions_of(note_id)

\* join_note(sid, data) up to the emit of load_note.
join_note(sid, note_id, token) ==
    /\ conn[sid] = "connected"
    /\ UNCHANGED <<conn, database, now>>
    /\ IF ~Truthy(note_id) \/ ~Truthy(token)
       THEN /\ emitted' = {ErrorMsg(sid, "Invalid request")}
            /\ last' = JoinEvent(sid, note_id, token, "invalid", <<>>, <<>>)
            /\ UNCHANGED <<rooms, registry, pending>>
       ELSE IF token_rejected(token)
       THEN /\ emitted' = {ErrorMsg(sid, "Authentication failed")}
            /\ last' = JoinEvent(sid, note_id, token, "auth_failed", <<>>, <<>>)
            /\ UNCHANGED <<rooms, registry, pending>>
       ELSE LET user_id == verify_id_token(token).uid
                user_email == verify_id_token(token).email
                au == DictSet(active_users, note_id,
                              DictGet(active_users, note_id, {}) \cup {user_id})
                ue == DictSet(user_emails, user_id, user_email)
            IN  /\ rooms' = enter_room(sid, note_id)
                /\ active_users' = au
                /\ user_emails' = ue
                /\ sid_to_note' = DictSet(sid_to_note, sid, note_id)
                /\ sid_to_user' = DictSet(sid_to_user, sid, user_id)
                /\ IF note_id \in DOMAIN notes
                   THEN \E ordered \in order_by_timestamp_asc(join_rows(note_id)) :
                          /\ emitted' = {Msg("load_note", {sid}, note_id, NoneVal,
                                             NoneVal, au[note_id],
                                             user_names_of(au, ue, note_id),
                                             extract_yjs_updates(ordered),
                                             notes[note_id].title)}
                          /\ pending' = pending \cup
                                {[sid |-> sid, note_id |-> note_id,
                                  user_id |-> user_id, user_email |-> user_email]}
                          /\ last' = JoinEvent(sid, note_id, token, "loaded",
                                               extract_yjs_updates(ordered),
                                               extract_ids(ordered))
                   ELSE /\ emitted' = {ErrorMsg(sid, "Note not found")}
                        /\ pending' = pending
                        /\ last' = JoinEvent(sid, note_id, token, "not_found",
                                             <<>>, <<>>)

\* join_note from the emit of load_note on: the user_joined broadcast.
join_note_notify(task) ==
    /\ task \in pending
    /\ pending' = pending \ {task}
    /\ IF task.note_id \in DOMAIN active_users
       THEN /\ emitted' = {Msg("user_joined", room_skip_sid(task.note_id, task.sid),
                               task.note_id, task.user_id, NoneVal,
                               active_users[task.note_id],
                               user_names_of(active_users, user_emails, task.note_id),
                               <<>>, task.user_email)}
            /\ last' = Event("join_note_notify", task.sid, task.note_id, NoneVal,
                             0, "ok", <<>>, <<>>)
       ELSE \* active_users[note_id] raises KeyError; the handler reports it
            /\ emitted' = {ErrorMsg(task.sid, "KeyError")}
            /\ last' = Event("join_note_notify", task.sid, task.note_id, NoneVal,
                             0, "error", <<>>, <<>>)
    /\ UNCHANGED <<sockets, registry, database, now>>

\* The delta text yjs_update builds for a payload.
yjs_delta(update_payload, user_name) ==
    json_dumps(<<"kind", "update", "user_name">>,
               [kind |-> "yjs_update", update |-> update_payload,
                user_name |-> user_name])

\* `last_version and last_version.delta == delta_payload`
is_duplicate(ordered, delta_payload) ==
    ordered # <<>> /\ Head(ordered).delta = delta_payload

\* Mutant of insert_version: the commit leaves only the new row.
insert_version_only(row) == {row}

\* Mutant of insert_version: the commit writes the row twice.
insert_version_twice(row) ==
    note_versions \cup {row, [row EXCEPT !.id = row.id + 1]}

\* The rows of the table after db.add(version); db.commit().
insert_version(row) == note_versions \cup {row}

\* Mutant of duplicate_relay: a duplicate is dropped without a relay.
duplicate_dropped(sid, note_id, update_payload) == {}

\* The emit of the duplicate path: the update goes to the room, sender skipped.
duplicate_relay(sid, note_id, update_payload) ==
    {YjsMsg(room_skip_sid(note_id, sid), note_id, update_payload)}

\* Mutant of db_rollback: the row of the failed commit stays in the table.
db_rollback_partial(version) == note_versions \cup {version}

\* The rows of the table after db.rollback() of the failed commit of version.
db_rollback(version) == note_versions

\* yjs_update(sid, data); commit_fails: db.commit() raises SQLAlchemyError.
yjs_update(sid, data_note_id, data_update, commit_fails) ==
    /\ conn[sid] = "connected"
    /\ UNCHANGED <<sockets, registry, pending, notes, created, now>>
    /\ LET note_id == IF Truthy(data_note_id) THEN data_note_id
                      ELSE DictGet(sid_to_note, sid, NoneVal)
           update_payload == IF data_update = Missing THEN NoneVal ELSE data_update
           ev(outcome) == Event("yjs_update", sid, note_id, data_update, 0,
                                outcome, <<>>, <<>>)
       IN
       IF data_update = Missing
       THEN /\ emitted' = {}
            /\ last' = ev("ignored")
            /\ UNCHANGED <<note_versions, next_id>>
       ELSE IF ~Truthy(note_id)
       THEN /\ emitted' = {ErrorMsg(sid, "Missing note_id")}
            /\ last' = ev("missing_note_id")
            /\ UNCHANGED <<note_versions, next_id>>
       ELSE IF ~IsStr(update_payload) \/ ~Truthy(update_payload)
       THEN /\ emitted' = {ErrorMsg(sid, "Invalid yjs update payload")}
            /\ last' = ev("invalid_payload")
            /\ UNCHANGED <<note_versions, next_id>>
       ELSE IF note_id \notin DOMAIN notes
       THEN /\ emitted' = {ErrorMsg(sid, "Note not found")}
            /\ last' = ev("not_found")
            /\ UNCHANGED <<note_versions, next_id>>
       ELSE LET user_id == DictGet(sid_to_user, sid, "unknown")
                user_name == DictGet(user_emails, user_id, user_id)
                delta_payload == yjs_delta(update_payload, user_name)
                version == [id |-> next_id + 1, note_id |-> note_id,
                            user_id |-> user_id, delta |-> delta_payload,
                            timestamp |-> now]
            IN  \E ordered \in order_by_timestamp_desc(versions_of(note_id)) :
                  IF is_duplicate(ordered, delta_payload)
                  THEN /\ emitted' = duplicate_relay(sid, note_id, update_payload)
                       /\ last' = ev("duplicate")
                       /\ UNCHANGED <<note_versions, next_id>>
                  ELSE IF commit_fails
                  THEN /\ note_versions' = db_rollback(version)
                       /\ next_id' = next_id
                       /\ emitted' = {ErrorMsg(sid, "Failed to persist yjs update")}
                       /\ last' = ev("db_error")
                  ELSE /\ next_id' = next_id + 1
                       /\ note_versions' = insert_version(version)
                       /\ emitted' = {YjsMsg(room_skip_sid(note_id, sid),
                                             note_id, update_payload)}
                       /\ last' = ev("persisted")

\* Mutant of drop_if_empty: the entry is deleted with members left in it.
drop_always(au, note_id) == DictDel(au, note_id)

\* Mutant of drop_if_empty: the entry is kept.
drop_never(au, note_id) == au

\* `if not active_users[note_id]: del active_users[note_id]`
drop_if_empty(au, note_id) ==
    IF au[note_id] = {} THEN DictDel(au, note_id) ELSE au

\* Recipients of the user_left emit: room=f"note_{note_id}", no skip_sid; the
\* handler runs before Socket.IO takes the sid out of its rooms.
leave_recipients(note_id, sid) == room_members(note_id)

\* disconnect(sid), and Socket.IO's removal of the sid from its rooms after it.
\* The handler may be entered again for a sid it has already handled.
disconnect(sid) ==
    /\ conn[sid] \in {"connected", "closed"}
    /\ conn' = [conn EXCEPT ![sid] = "closed"]
    /\ rooms' = [rooms EXCEPT ![sid] = {}]
    /\ sid_to_note' = DictDel(sid_to_note, sid)
    /\ sid_to_user' = DictDel(sid_to_user, sid)
    /\ LET note_id == DictGet(sid_to_note, sid, NoneVal)
           user_id == DictGet(sid_to_user, sid, NoneVal)
       IN  /\ last' = Event("disconnect", sid, note_id, NoneVal, 0, "ok", <<>>, <<>>)
           /\ IF note_id # NoneVal /\ user_id # NoneVal
                 /\ note_id \in DOMAIN active_users
              THEN LET remaining == active_users[note_id] \ {user_id}
                       discarded == [active_users EXCEPT ![note_id] = remaining]
                   IN  /\ active_users' = drop_if_empty(discarded, note_id)
                       /\ emitted' =
                             IF remaining = {} THEN {}
                             ELSE {Msg("user_left", leave_recipients(note_id, sid),
                                       note_id, user_id, NoneVal, remaining,
                                       user_names_of(discarded, user_emails, note_id),
                                       <<>>, NoneVal)}
              ELSE /\ active_users' = active_users
                   /\ emitted' = {}
    /\ UNCHANGED <<user_emails, pending, database, now>>

(* ------------------------------ HTTP routes ---------------------------- *)

Http(op, note_id, version_id, outcome, result, result_ids) ==
    Event(op, 0, note_id, NoneVal, version_id, outcome, result, result_ids)

\* POST /notes: the new note gets a fresh uuid4.
create_note(title) ==
    \E id \in NoteIds \ created :
        /\ notes' = DictSet(notes, id, [title |-> title, updated_at |-> now])
        /\ created' = created \cup {id}
        /\ last' = Http("create_note", id, 0, "201", <<>>, <<>>)
        /\ emitted' = {}
        /\ UNCHANGED <<sockets, registry, pending, note_versions, next_id, now>>

\* PUT /notes/{note_id} with a title (the content cache is not modelled).
update_note(note_id, title) ==
    /\ emitted' = {}
    /\ UNCHANGED <<sockets, registry, pending, created, note_versions, next_id, now>>
    /\ IF note_id \notin DOMAIN notes
       THEN /\ last' = Http("update_note", note_id, 0, "404", <<>>, <<>>)
            /\ notes' = notes
       ELSE /\ last' = Http("update_note", note_id, 0, "200", <<>>, <<>>)
            /\ notes' = IF title # notes[note_id].title
                        THEN [notes EXCEPT ![note_id] =
                                 [title |-> title, updated_at |-> now]]
                        ELSE notes

\* Mutant of delete_rows: the delete has no filter on note_id.
delete_rows_all(note_id) == note_versions

\* Mutant of delete_rows: the note is deleted and its rows are left.
delete_rows_none(note_id) == {}

\* The rows delete_note deletes with the note.
delete_rows(note_id) == versions_of(note_id)

\* DELETE /notes/{note_id}
delete_note(note_id) ==
    /\ emitted' = {}
    /\ UNCHANGED <<sockets, registry, pending, created, next_id, now>>
    /\ IF note_id \notin DOMAIN notes
       THEN /\ last' = Http("delete_note", note_id, 0, "404", <<>>, <<>>)
            /\ UNCHANGED <<notes, note_versions>>
       ELSE /\ last' = Http("delete_note", note_id, 0, "204", <<>>, <<>>)
            /\ note_versions' = note_versions \ delete_rows(note_id)
            /\ notes' = DictDel(notes, note_id)

\* Mutant of safe_limit: the limit is used as given.
safe_limit_unclamped(limit) == limit

\* safe_limit = max(1, min(limit, 500))
safe_limit(limit) ==
    LET m == IF limit < 500 THEN limit ELSE 500
    IN  IF m > 1 THEN m ELSE 1

\* str(payload.get("kind") or "unknown")
kind_of(version) ==
    LET k == DictGet(parse_version_delta(version.delta), "kind", NoneVal)
    IN  IF Truthy(k) THEN k ELSE "unknown"

\* GET /notes/{note_id}/versions?limit=N
list_note_versions(note_id, limit) ==
    /\ emitted' = {}
    /\ UNCHANGED <<sockets, registry, pending, database, now>>
    /\ IF note_id \notin DOMAIN notes
       THEN last' = Http("list_note_versions", note_id, 0, "404", <<>>, <<>>)
       ELSE \E ordered \in order_by_timestamp_desc(versions_of(note_id)) :
              LET versions == Limit(ordered, safe_limit(limit))
              IN  last' = [Http("list_note_versions", note_id, 0, "200",
                                [i \in 1..Len(versions) |-> kind_of(versions[i])],
                                [i \in 1..Len(versions) |-> versions[i].id])
                              EXCEPT !.limit = limit]

\* Mutant of get_note_version: the row is looked up by id alone.
get_note_version_any_note(note_id, version_id) ==
    {v \in note_versions : v.id = version_id}

\* _get_note_version_or_404: the rows with that note_id and id.
get_note_version(note_id, version_id) ==
    {v \in note_versions : v.note_id = note_id /\ v.id = version_id}

\* GET /notes/{note_id}/versions/{version_id}
get_note_version_snapshot(note_id, version_id) ==
    /\ emitted' = {}
    /\ UNCHANGED <<sockets, registry, pending, database, now>>
    /\ IF note_id \notin DOMAIN notes
          \/ get_note_version(note_id, version_id) = {}
       THEN last' = Http("get_note_version_snapshot", note_id, version_id,
                         "404", <<>>, <<>>)
       ELSE LET target_version == CHOOSE v \in get_note_version(note_id, version_id) : TRUE
            IN  \E prior_versions \in
                      order_by_timestamp_asc(snapshot_rows(note_id, target_version)) :
                  last' = Http("get_note_version_snapshot", note_id, version_id,
                               "200", extract_yjs_updates(prior_versions),
                               extract_ids(prior_versions))

\* The delta text restore_note_version builds.
restore_delta(version_id, user_name) ==
    json_dumps(<<"kind", "target_version_id", "user_name">>,
               [kind |-> "restore", target_version_id |-> ToString(version_id),
                user_name |-> user_name])

\* POST /notes/{note_id}/versions/{version_id}/restore
restore_note_version(note_id, version_id, data_user_id, data_user_name) ==
    /\ emitted' = {}
    /\ UNCHANGED <<sockets, registry, pending, created, now>>
    /\ IF note_id \notin DOMAIN notes
          \/ get_note_version(note_id, version_id) = {}
       THEN /\ last' = Http("restore_note_version", note_id, version_id, "404",
                            <<>>, <<>>)
            /\ UNCHANGED <<notes, note_versions, next_id>>
       ELSE LET restored_at == now
                restore_user_id == IF Truthy(data_user_id) THEN data_user_id
                                   ELSE "system"
                restore_user_name == IF Truthy(data_user_name) THEN data_user_name
                                     ELSE restore_user_id
            IN  /\ next_id' = next_id + 1
                /\ note_versions' = insert_version(
                       [id |-> next_id + 1, note_id |-> note_id,
                        user_id |-> restore_user_id,
                        delta |-> restore_delta(version_id, restore_user_name),
                        timestamp |-> restored_at])
                /\ notes' = [notes EXCEPT ![note_id].updated_at = restored_at]
                /\ last' = [Http("restore_note_version", note_id, version_id,
                                 "200", <<>>, <<>>)
                               EXCEPT !.user_id = data_user_id]

(* ------------------------------- clock --------------------------------- *)

\* Time passes: datetime.utcnow() returns a later value from now on.
Tick ==
    /\ now' = now + 1
    /\ emitted' = {}
    /\ last' = NoEvent("tick")
    /\ UNCHANGED <<sockets, registry, pending, database>>

(* ------------------------- what clients were sent --------------------- *)

\* The <<note_id, update>> pairs a message carries to its recipients: the
\* update of a yjs_update, the yjs_updates list of a load_note.
Carried(m) ==
    IF m.event = "yjs_update" THEN {<<m.note_id, m.update>>}
    ELSE IF m.event = "load_note"
    THEN {<<m.note_id, m.yjs_updates[i]>> : i \in 1..Len(m.yjs_updates)}
    ELSE {}

\* Step A, with no record kept of what the clients are sent.
Quiet(A) == A /\ UNCHANGED history

\* Step A, recording for every live connection what the step's messages
\* carry to it and what the step persisted for it.
Heard(A) ==
    /\ A
    /\ received' =
          [s \in Sids |->
              IF conn'[s] # "connected" THEN {}
              ELSE received[s] \cup
                   UNION {Carried(m) : m \in {x \in emitted' : s \in x.to}}]
    /\ sent' =
          [s \in Sids |->
              IF conn'[s] # "connected" THEN {}
              ELSE IF last'.op = "yjs_update" /\ last'.sid = s
                      /\ last'.outcome = "persisted"
              THEN sent[s] \cup {<<last'.note_id, last'.update>>}
              ELSE sent[s]]

(* -------------------------------- Next --------------------------------- *)

JoinNoteIds == NoteIds \cup {NoneVal}
Limits == {0, 2, 600}
RestoreUsers == {<<NoneVal, NoneVal>>, <<"u9", "Bob">>}

\* join_note inputs <<note_id, token>>: every note with every good token,
\* and one input for each way the request is refused.
JoinInputs ==
    {<<n, t>> : n \in NoteIds, t \in GoodTokens}
        \cup {<<NoneVal, "tokA">>, <<"n1", NoneVal>>, <<"n1", "tokBad">>}

\* yjs_update inputs <<note_id, update, commit_fails>>.
YjsInputs ==
    {<<n, "AAA", FALSE>> : n \in JoinNoteIds}
        \cup {<<"n1", "AAA", TRUE>>}
        \cup {<<NoneVal, u, FALSE>> : u \in {Missing, NoneVal, NotAStr, ""}}

\* At most MaxPendingJoins join_note tasks of one connection are suspended.
PendingBounded(p) ==
    \A sid \in Sids : Cardinality({t \in p : t.sid = sid}) <= MaxPendingJoins

\* The realtime side: every connection, every Socket.IO event with valid and
\* invalid inputs, every interleaving of the handlers; note n1 exists until
\* it is deleted, n2 names no note; the log holds at most MaxRoomVersions rows.
Next ==
    \/ \E sid \in Sids : Quiet(connect(sid))
    \/ \E sid \in Sids, in \in JoinInputs :
          Quiet(join_note(sid, in[1], in[2])) /\ PendingBounded(pending')
    \/ \E task \in pending : Quiet(join_note_notify(task))
    \/ \E sid \in Sids, in \in YjsInputs :
          Quiet(yjs_update(sid, in[1], in[2], in[3])) /\ next_id' <= MaxRoomVersions
    \/ \E sid \in Sids : Quiet(disconnect(sid))
    \/ \E note_id \in NoteIds : Quiet(delete_note(note_id))

Spec == Init /\ [][Next]_vars

\* The history side: one connection that joins note n1 and writes to any
\* note, bound or not; every HTTP route on the versions; notes created and
\* deleted; the clock; a log of at most MaxVersions rows.
LogSids == {1}

LogYjsInputs ==
    {<<n, u, FALSE>> : n \in JoinNoteIds, u \in Payloads}
        \cup {<<"n1", "AAA", TRUE>>}

NextLog ==
    \/ \E sid \in LogSids : Quiet(connect(sid))
    \/ \E sid \in LogSids :
          Quiet(join_note(sid, "n1", "tokA")) /\ PendingBounded(pending')
    \/ \E task \in pending : Quiet(join_note_notify(task))
    \/ \E sid \in LogSids, in \in LogYjsInputs :
          Quiet(yjs_update(sid, in[1], in[2], in[3])) /\ next_id' <= MaxVersions
    \/ \E sid \in LogSids : Quiet(disconnect(sid))
    \/ Quiet(create_note("t2"))
    \/ \E note_id \in NoteIds : Quiet(delete_note(note_id))
    \/ \E note_id \in NoteIds, limit \in Limits :
          Quiet(list_note_versions(note_id, limit))
    \/ \E note_id \in NoteIds, version_id \in VersionIds :
          Quiet(get_note_version_snapshot(note_id, version_id))
    \/ \E note_id \in NoteIds, version_id \in VersionIds, user \in RestoreUsers :
          Quiet(restore_note_version(note_id, version_id, user[1], user[2]))
             /\ next_id' <= MaxVersions
    \/ Quiet(Tick) /\ now' <= MaxTime

SpecLog == Init /\ [][NextLog]_vars

\* Joins racing with updates: two connections that join note n1 under either
\* principal and send updates to it, by id or through their binding, while
\* join handlers are suspended; disconnects; deletion of the note; what each
\* connection is sent is recorded.
RaceYjsInputs == {<<n, u>> : n \in {"n1", NoneVal}, u \in Payloads}

NextRace ==
    \/ \E sid \in Sids : Heard(connect(sid))
    \/ \E sid \in Sids, token \in GoodTokens :
          Heard(join_note(sid, "n1", token)) /\ PendingBounded(pending')
    \/ \E task \in pending : Heard(join_note_notify(task))
    \/ \E sid \in Sids, in \in RaceYjsInputs :
          Heard(yjs_update(sid, in[1], in[2], FALSE)) /\ next_id' <= MaxVersions
    \/ \E sid \in Sids : Heard(disconnect(sid))
    \/ Heard(delete_note("n1"))

SpecRace == Init /\ [][NextRace]_vars

\* Restores over a log of several updates: one connection writes updates to
\* note n1, versions of n1 are restored, the clock advances or stands still
\* between the writes; a log of at most MaxRestoreVersions rows.
NextRestore ==
    \/ Quiet(connect(1))
    \/ \E u \in Payloads :
          Quiet(yjs_update(1, "n1", u, FALSE)) /\ next_id' <= MaxRestoreVersions
    \/ \E version_id \in 1..MaxRestoreVersions :
          Quiet(restore_note_version("n1", version_id, NoneVal, NoneVal))
             /\ next_id' <= MaxRestoreVersions
    \/ Quiet(Tick) /\ now' <= MaxTime

SpecRestore == Init /\ [][NextRestore]_vars

\* The principal of the token is the principal of no live bound connection.
PrincipalFree(token) ==
    \A s \in DOMAIN sid_to_user :
        conn[s] = "connected" => sid_to_user[s] # verify_id_token(token).uid

\* Well-behaved clients: a connection sends join_note at most once, for a
\* note that exists, under a principal no other live connection has; join
\* handlers are suspended at their emit while other connections join,
\* write and disconnect; a second note is created; no note is deleted.
NextOnce ==
    \/ \E sid \in Sids : Quiet(connect(sid))
    \/ \E sid \in Sids, note_id \in NoteIds, token \in GoodTokens :
          /\ sid \notin DOMAIN sid_to_note
          /\ note_id \in DOMAIN notes
          /\ PrincipalFree(token)
          /\ Quiet(join_note(sid, note_id, token))
    \/ \E task \in pending : Quiet(join_note_notify(task))
    \/ \E sid \in Sids :
          Quiet(yjs_update(sid, NoneVal, "AAA", FALSE)) /\ next_id' <= MaxRoomVersions
    \/ \E sid \in Sids : Quiet(disconnect(sid))
    \/ Quiet(create_note("t2"))

SpecOnce == Init /\ [][NextOnce]_vars

(* ======================= properties: realtime side ===================== *)

\* The principals with a live connection bound to note d.
bound_principals(d) ==
    {sid_to_user[s] : s \in {x \in DOMAIN sid_to_note \cap DOMAIN sid_to_user :
                                conn[x] = "connected" /\ sid_to_note[x] = d}}

\* The live connections other than sid that are bound to note d.
bound_peers(d, sid) ==
    {s \in Sids \ {sid} : conn[s] = "connected" /\ DictGet(sid_to_note, s, NoneVal) = d}

\* The last step was a yjs_update that was accepted (persisted or deduplicated).
YjsAccepted == last.op = "yjs_update" /\ last.outcome \in {"persisted", "duplicate"}

\* C1 (as claimed): in every state, for every note id d, active_users[d] (the
\* empty set when d has no entry) is exactly the set of principals that have
\* a live connection bound to d.
C1_MembershipConsistent ==
    \A d \in NoteIds : DictGet(active_users, d, {}) = bound_principals(d)

\* C2: the yjs_update broadcast that a connection's yjs_update event causes,
\* persisted or deduplicated, never has that connection among its recipients.
C2_NoSelfEcho ==
    last.op = "yjs_update" =>
        \A m \in emitted : m.event = "yjs_update" => last.sid \notin m.to

\* C2 witness: an accepted update whose sender is in the note's room, with a
\* broadcast that reaches somebody.
C2_Witness ==
    /\ YjsAccepted
    /\ last.note_id \in rooms[last.sid]
    /\ \E m \in emitted : m.event = "yjs_update" /\ m.to # {}

\* C3: when a yjs_update is accepted from a connection for note D, one
\* yjs_update message with D's id and the submitted payload is emitted, and
\* every other live connection bound to D is among its recipients.
C3_FanOut ==
    YjsAccepted =>
        \E m \in emitted :
            /\ m.event = "yjs_update"
            /\ m.note_id = last.note_id
            /\ m.update = last.update
            /\ bound_peers(last.note_id, last.sid) \subseteq m.to

\* C3 witness: an accepted update while another connection is bound to the note.
C3_Witness ==
    YjsAccepted /\ bound_peers(last.note_id, last.sid) # {}

\* C10 (as claimed): a join_note event on a connection that is already bound
\* is answered with an error to that connection only and changes neither its
\* binding nor any membership.
C10_BindOnce ==
    [][\A s \in Sids :
         (s \in DOMAIN sid_to_note /\ last'.op = "join_note" /\ last'.sid = s)
            => /\ sid_to_note' = sid_to_note
               /\ sid_to_user' = sid_to_user
               /\ active_users' = active_users
               /\ rooms' = rooms
               /\ emitted' # {}
               /\ \A m \in emitted' : m.event = "error" /\ m.to = {s}]_vars

\* C11: a disconnect event for a connection that never joined, or whose
\* disconnect has been handled before, changes none of active_users,
\* sid_to_note, sid_to_user and emits no user_left (indeed nothing).
C11_LeaveIdempotent ==
    [][\A s \in Sids :
         (/\ last'.op = "disconnect" /\ last'.sid = s
          /\ (conn[s] = "closed" \/ s \notin DOMAIN sid_to_note))
            => /\ active_users' = active_users
               /\ sid_to_note' = sid_to_note
               /\ sid_to_user' = sid_to_user
               /\ emitted' = {}]_vars

\* C11 witness: a disconnect of a connection with no binding has been
\* handled while another connection is bound and in a room, so that a
\* user_left would have had a recipient.
C11_Witness ==
    /\ last.op = "disconnect" /\ last.note_id = NoneVal
    /\ \E s \in Sids \ {last.sid} :
          /\ conn[s] = "connected" /\ s \in DOMAIN sid_to_note
          /\ sid_to_note[s] \in rooms[s]

\* The step handled a join_note of connection s.
JoinStep(s) == last'.op = "join_note" /\ last'.sid = s

\* The step answered connection s with one error message, to s only, and
\* changed no registry and no room.
RejectedNoChange(s) ==
    /\ emitted' # {}
    /\ \A m \in emitted' : m.event = "error" /\ m.to = {s}
    /\ UNCHANGED <<active_users, user_emails, sid_to_note, sid_to_user, rooms>>

\* C12: a join_note with no note_id, no token, or a token that verification
\* refuses is answered with an error to the requester only (no load_note,
\* no user_joined) and leaves the registries and the rooms as they were.
C12_JoinBadInput ==
    [][\A s \in Sids :
         (/\ JoinStep(s)
          /\ \/ last'.note_id \in {NoneVal, Missing, ""}
             \/ last'.token \in {NoneVal, Missing, ""}
             \/ last'.token \notin GoodTokens)
            => RejectedNoChange(s)]_vars

\* C12 witness: a join_note with a refused token has been handled for a
\* connection while another connection is in the room of the note it named.
C12_Witness ==
    /\ last.op = "join_note" /\ last.token = "tokBad"
    /\ \E s \in Sids \ {last.sid} : last.note_id \in rooms[s]
    /\ last.sid \notin DOMAIN sid_to_note

\* C13 (as claimed): a join_note with a good token and a note_id that names
\* no note is answered with an error to the requester only and changes
\* nothing: no binding, no membership, no registry entry for that id.
C13_JoinUnknownNote ==
    [][\A s \in Sids :
         (/\ JoinStep(s)
          /\ last'.token \in GoodTokens
          /\ last'.note_id \notin {NoneVal, Missing, ""}
          /\ last'.note_id \notin DOMAIN notes)
            => RejectedNoChange(s)]_vars

\* C14 (as claimed): a join_note with a note_id, a good token and an existing
\* note sends one load_note to the joiner, whose membership holds the
\* joiner's principal, and the step that follows it for that join, if the
\* joiner is still connected, sends one user_joined, with the membership of
\* that moment, to every other connection bound to the note and not to the
\* joiner.
C14_JoinProtocol ==
    [][\A s \in Sids :
         /\ (/\ JoinStep(s)
             /\ last'.token \in GoodTokens
             /\ last'.note_id \in DOMAIN notes)
               => /\ Cardinality(emitted') = 1
                  /\ \A m \in emitted' :
                        /\ m.event = "load_note" /\ m.to = {s}
                        /\ verify_id_token(last'.token).uid \in m.active_users
                        /\ m.yjs_updates = last'.result
                        /\ m.text = notes[last'.note_id].title
                  /\ \E task \in pending' :
                        task.sid = s /\ task.note_id = last'.note_id
         /\ (last'.op = "join_note_notify" /\ last'.sid = s
                /\ conn[s] = "connected")
               => /\ Cardinality(emitted') = 1
                  /\ \A m \in emitted' :
                        /\ m.event = "user_joined"
                        /\ s \notin m.to
                        /\ bound_peers(last'.note_id, s) \subseteq m.to
                        /\ m.active_users = DictGet(active_users, last'.note_id, {})]_vars

\* C15 (as claimed): when a bound connection s disconnects, its binding is
\* removed; if other live connections are bound to its note, each is sent a
\* user_left that names the principal of s and lists the principals of those
\* connections; if there is none, nothing is sent and the note has no entry
\* in active_users any more.
C15_DisconnectFlow ==
    [][\A s \in Sids :
         (/\ last'.op = "disconnect" /\ last'.sid = s
          /\ conn[s] = "connected" /\ s \in DOMAIN sid_to_note)
            => LET d == sid_to_note[s]
                   others == bound_peers(d, s)
               IN  /\ s \notin DOMAIN sid_to_note'
                   /\ s \notin DOMAIN sid_to_user'
                   /\ IF others # {}
                      THEN /\ Cardinality(emitted') = 1
                           /\ \A m \in emitted' :
                                 /\ m.event = "user_left"
                                 /\ m.user_id = sid_to_user[s]
                                 /\ others \subseteq m.to
                                 /\ m.active_users = {sid_to_user[x] : x \in others}
                      ELSE /\ emitted' = {}
                           /\ d \notin DOMAIN active_users']_vars

\* The step handled a yjs_update of connection s.
YjsStep(s) == last'.op = "yjs_update" /\ last'.sid = s

\* The update of the event is no non-empty string, or the note the event
\* resolves to (its note_id, else the sender's binding) is none or unknown.
YjsInvalid ==
    \/ last'.update \in {Missing, NoneVal, NotAStr, ""}
    \/ last'.note_id \in {NoneVal, Missing, ""}
    \/ last'.note_id \notin DOMAIN notes

\* C16: a yjs_update event with an invalid update or with no existing target
\* note appends no row and causes no yjs_update message.
C16_InvalidNoEffect ==
    [][\A s \in Sids :
         (YjsStep(s) /\ YjsInvalid)
            => /\ note_versions' = note_versions
               /\ \A m \in emitted' : m.event # "yjs_update"]_vars

\* C16 witness: an update that is not a string has been refused, sent by a
\* connection bound to an existing note with another connection in its room.
C16_Witness ==
    /\ last.op = "yjs_update" /\ last.update = NotAStr
    /\ last.note_id \in DOMAIN notes
    /\ room_skip_sid(last.note_id, last.sid) # {}
    /\ next_id < MaxRoomVersions

\* C17 (as claimed): every yjs_update event that fails validation is
\* answered with an error message to the sender and to nobody else.
C17_FailureReported ==
    [][\A s \in Sids :
         (YjsStep(s) /\ YjsInvalid)
            => /\ emitted' # {}
               /\ \A m \in emitted' : m.event = "error" /\ m.to = {s}]_vars

(* ======================== properties: history side ===================== *)

\* The kind and the update written in a row's delta text.
row_kind(v) == v.delta[1][2]
row_update(v) == v.delta[2][2]
row_by_id(id) == CHOOSE v \in note_versions : v.id = id
yjs_rows(rows) == {v \in rows : row_kind(v) = "yjs_update"}

\* The last step returned a reconstruction: a join's replay or a snapshot.
IsReconstruction(e) ==
    \/ e.op = "join_note" /\ e.outcome = "loaded"
    \/ e.op = "get_note_version_snapshot" /\ e.outcome = "200"

\* result lists the updates of exactly the yjs_update rows among rows, each
\* once, in ascending timestamp order; ids are the rows behind it.
IsReplayOf(result, ids, rows) ==
    /\ Len(result) = Len(ids)
    /\ Len(ids) = Cardinality(yjs_rows(rows))
    /\ {ids[i] : i \in 1..Len(ids)} = {v.id : v \in yjs_rows(rows)}
    /\ \A i, j \in 1..Len(ids) :
          i < j => row_by_id(ids[i]).timestamp <= row_by_id(ids[j]).timestamp
    /\ \A i \in 1..Len(ids) : result[i] = row_update(row_by_id(ids[i]))

\* C4 (as claimed): in every reconstruction result (a join's replay, a
\* snapshot) the rows appear in the order in which they were persisted.
C4_PersistOrder ==
    IsReconstruction(last) =>
        \A i, j \in 1..Len(last.result_ids) :
            i < j => last.result_ids[i] < last.result_ids[j]

\* C5 (as claimed): a yjs_update with payload p for note D, arriving when the
\* row persisted last for D is a yjs_update row with payload p, appends no row.
C5_IdempotentApply ==
    [][~ /\ last'.op = "yjs_update"
         /\ last'.outcome = "persisted"
         /\ versions_of(last'.note_id) # {}
         /\ LET newest == CHOOSE v \in versions_of(last'.note_id) :
                              \A w \in versions_of(last'.note_id) : w.id <= v.id
            IN  row_kind(newest) = "yjs_update"
                /\ row_update(newest) = last'.update]_vars

\* C6: a snapshot of a note for a target row with timestamp T returns the
\* updates of exactly the note's yjs_update rows with timestamp <= T, in
\* ascending timestamp order; restore rows and later rows are left out.
C6_SnapshotUpTo ==
    (last.op = "get_note_version_snapshot" /\ last.outcome = "200") =>
        LET T == row_by_id(last.version_id).timestamp
        IN  /\ row_by_id(last.version_id).note_id = last.note_id
            /\ IsReplayOf(last.result, last.result_ids,
                          {v \in note_versions :
                              v.note_id = last.note_id /\ v.timestamp <= T})

\* C6 witness: a snapshot that returns an update while the note has a later
\* yjs_update row, which it leaves out.
C6_Witness ==
    /\ last.op = "get_note_version_snapshot" /\ last.outcome = "200"
    /\ last.result # <<>>
    /\ \E v \in yjs_rows(note_versions) :
          /\ v.note_id = last.note_id
          /\ v.timestamp > row_by_id(last.version_id).timestamp

\* C7: the load_note message of a join carries the updates of all yjs_update
\* rows of the note, in ascending timestamp order, whatever the note's
\* updated_at is.
C7_FullReplayOnJoin ==
    (last.op = "join_note" /\ last.outcome = "loaded") =>
        /\ \E m \in emitted :
              /\ m.event = "load_note"
              /\ m.to = {last.sid}
              /\ m.yjs_updates = last.result
        /\ IsReplayOf(last.result, last.result_ids,
                      {v \in note_versions : v.note_id = last.note_id})

\* C7 witness: a join whose replay holds a row older than the note's
\* updated_at.
C7_Witness ==
    /\ last.op = "join_note" /\ last.outcome = "loaded"
    /\ \E i \in 1..Len(last.result_ids) :
          row_by_id(last.result_ids[i]).timestamp < notes[last.note_id].updated_at

\* C8 (as claimed, for two reconstructions that follow one another): the
\* same reconstruction of the same note, made twice with no step between,
\* returns the same update sequence.
C8_IdempotentReplay ==
    [][(/\ IsReconstruction(last) /\ IsReconstruction(last')
        /\ last'.op = last.op
        /\ last'.note_id = last.note_id
        /\ last'.version_id = last.version_id)
          => last'.result = last.result]_vars

\* C9: a step never changes or removes a row, except that delete_note removes
\* all rows of the note it deletes; a new row has an id no row had before.
C9_AppendOnly ==
    [][/\ \A v \in note_versions :
            \/ v \in note_versions'
            \/ /\ last'.op = "delete_note"
               /\ last'.note_id = v.note_id
               /\ last'.note_id \notin DOMAIN notes'
               /\ \A w \in note_versions' : w.note_id # v.note_id
       /\ \A w \in note_versions' \ note_versions : w.id > next_id]_vars

\* C9 witness: a delete_note has removed the rows of its note and a row of
\* another note is still there.
C9_Witness ==
    /\ last.op = "delete_note" /\ last.outcome = "204"
    /\ note_versions # {}
    /\ Cardinality(note_versions) < next_id

Min(a, b) == IF a < b THEN a ELSE b
Max(a, b) == IF a > b THEN a ELSE b

C19_Restore ==
    [][(/\ last'.op = "restore_note_version"
        /\ last'.note_id \in DOMAIN notes
        /\ \E v \in note_versions :
              v.note_id = last'.note_id /\ v.id = last'.version_id)
          => /\ note_versions \subseteq note_versions'
             /\ Cardinality(note_versions' \ note_versions) = 1
             /\ \A r \in note_versions' \ note_versions :
                   /\ r.note_id = last'.note_id
                   /\ row_kind(r) = "restore"
                   /\ parse_version_delta(r.delta)["target_version_id"]
                         = ToString(last'.version_id)
                   /\ r.user_id = IF last'.user_id \in {NoneVal, Missing, ""}
                                  THEN "system" ELSE last'.user_id
                   /\ r.timestamp = now
                   /\ \A v \in note_versions' : v.timestamp <= r.timestamp
                   /\ notes'[last'.note_id].updated_at = r.timestamp
             /\ DOMAIN notes' = DOMAIN notes
             /\ \A n \in DOMAIN notes :
                   /\ notes'[n].title = notes[n].title
                   /\ n # last'.note_id => notes'[n] = notes[n]]_vars

\* C19 witness: a restore with no user id has been recorded, later than the
\* row it names, while another note exists.
C19_Witness ==
    /\ last.op = "restore_note_version" /\ last.outcome = "200"
    /\ last.user_id = NoneVal
    /\ Cardinality(DOMAIN notes) = 2
    /\ \E r \in note_versions :
          /\ row_kind(r) = "restore" /\ r.user_id = "system"
          /\ r.note_id = last.note_id
          /\ r.timestamp > row_by_id(last.version_id).timestamp

(* ==================== properties: joins racing with updates ============ *)

\* C20: for every yjs_update row persisted for a note and every live
\* connection bound to that note, once its join has sent load_note, the
\* connection has been sent the row's update, in the yjs_updates of a
\* load_note or in a yjs_update message, unless it submitted that update
\* itself.
C20_NoLostUpdate ==
    \A r \in yjs_rows(note_versions) : \A c \in Sids :
        (/\ conn[c] = "connected"
         /\ DictGet(sid_to_note, c, NoneVal) = r.note_id
         /\ <<r.note_id, row_update(r)>> \notin sent[c])
            => <<r.note_id, row_update(r)>> \in received[c]

\* C20 witness: an update of another connection was persisted while the join
\* handler of a connection was suspended at its emit of load_note, whose
\* replay had come without it, and the connection has been sent the update.
C20_Witness ==
    /\ last.op = "yjs_update" /\ last.outcome = "persisted"
    /\ Cardinality(note_versions) = 1
    /\ \E task \in pending :
          /\ task.sid # last.sid
          /\ task.note_id = last.note_id
          /\ conn[task.sid] = "connected"
          /\ sent[task.sid] = {}
          /\ <<last.note_id, last.update>> \in received[task.sid]

(* ================== properties: rooms, registries, failures ============ *)

\* C21 (as claimed): at every moment a connection is in the room of at most
\* one note.
C21_OneRoomPerConnection ==
    \A s \in Sids : Cardinality(rooms[s]) <= 1

\* The row of note d that was inserted last; d has rows.
log_tail(d) ==
    CHOOSE v \in versions_of(d) : \A w \in versions_of(d) : w.id <= v.id

\* A yjs_update row with update p is the last row inserted for note d.
TailHolds(d, p) ==
    /\ versions_of(d) # {}
    /\ row_kind(log_tail(d)) = "yjs_update"
    /\ row_update(log_tail(d)) = p

\* C22: a yjs_update event with a non-empty string for an existing note d
\* that is not deduplicated adds, unless the store fails, exactly one row, a
\* yjs_update row of d with that update, changes no other row, and emits its
\* yjs_update message with the row in the table.
C22_OneAppendThenFanOut ==
    [][(/\ last'.op = "yjs_update"
        /\ last'.update \notin {Missing, NoneVal, NotAStr, ""}
        /\ last'.note_id \in DOMAIN notes
        /\ last'.outcome \notin {"duplicate", "db_error"})
          => /\ note_versions \subseteq note_versions'
             /\ Cardinality(note_versions' \ note_versions) = 1
             /\ \A r \in note_versions' \ note_versions :
                   /\ r.note_id = last'.note_id
                   /\ row_kind(r) = "yjs_update"
                   /\ row_update(r) = last'.update
             /\ \E m \in emitted' :
                   /\ m.event = "yjs_update"
                   /\ m.note_id = last'.note_id
                   /\ m.update = last'.update]_vars

\* C22 witness: an update has been persisted for a note and broadcast while
\* another note has a row, which is still there.
C22_Witness ==
    /\ last.op = "yjs_update" /\ last.outcome = "persisted"
    /\ \E m \in emitted : m.event = "yjs_update" /\ m.update = last.update
    /\ \E r \in note_versions : r.note_id # last.note_id

\* C23: every key of active_users maps to a non-empty set; and right after a
\* disconnect that took the last member out of a note's set, the note has
\* no entry.
C23_NoEmptyRooms ==
    /\ \A d \in DOMAIN active_users : active_users[d] # {}
    /\ (last.op = "disconnect" /\ last.note_id # NoneVal /\ emitted = {})
          => last.note_id \notin DOMAIN active_users

\* C23 witness: a disconnect has taken the last member out of a note's set
\* while another note still has an entry.
C23_Witness ==
    /\ last.op = "disconnect" /\ last.note_id # NoneVal
    /\ last.note_id \notin DOMAIN active_users
    /\ DOMAIN active_users # {}

\* C24 (as claimed): the user_left message that the disconnect of a
\* connection causes does not have that connection among its recipients.
C24_LeaveExcludesLeaver ==
    last.op = "disconnect" =>
        \A m \in emitted : m.event = "user_left" => last.sid \notin m.to

\* The step handled a snapshot or restore request that names a note that
\* does not exist or a version id that no row of that note has.
NotFoundRequest ==
    /\ last'.op \in {"get_note_version_snapshot", "restore_note_version"}
    /\ \/ last'.note_id \notin DOMAIN notes
       \/ ~ \E v \in note_versions :
               v.id = last'.version_id /\ v.note_id = last'.note_id

\* C25: a snapshot or restore request for a note that does not exist, a
\* version id that does not exist, or a version id of another note ends in
\* 404, returns nothing, adds no row and leaves every note as it was.
C25_NotFoundNoChange ==
    [][NotFoundRequest
          => /\ last'.outcome = "404"
             /\ last'.result = <<>>
             /\ note_versions' = note_versions
             /\ notes' = notes]_vars

\* C25 witness: a restore of an existing note has ended in 404 for a version
\* id that a row of another note has.
C25_Witness ==
    /\ last.op = "restore_note_version" /\ last.outcome = "404"
    /\ last.note_id \in DOMAIN notes
    /\ \E v \in note_versions :
          v.id = last.version_id /\ v.note_id # last.note_id

\* C26 (as claimed): rows of one note with equal timestamps come in
\* insertion order in a reconstruction, in reverse insertion order in a
\* listing, and a yjs_update is taken for a duplicate only of the row that
\* was inserted last.
C26_StableTies ==
    [][LET ids == last'.result_ids
           tied(i, j) == row_by_id(ids[i]).timestamp = row_by_id(ids[j]).timestamp
       IN  /\ IsReconstruction(last') =>
                 \A i, j \in 1..Len(ids) : (i < j /\ tied(i, j)) => ids[i] < ids[j]
           /\ (last'.op = "list_note_versions" /\ last'.outcome = "200") =>
                 \A i, j \in 1..Len(ids) : (i < j /\ tied(i, j)) => ids[i] > ids[j]
           /\ (last'.op = "yjs_update" /\ last'.outcome = "duplicate") =>
                 TailHolds(last'.note_id, last'.update)]_vars

\* C27 (as claimed): user_emails has an entry for a principal exactly when a
\* live connection is bound with that principal.
C27_NamesFollowSessions ==
    DOMAIN user_emails =
        {sid_to_user[s] : s \in {x \in DOMAIN sid_to_user : conn[x] = "connected"}}

\* C28: a yjs_update that is taken for a duplicate adds no row and is sent,
\* in one yjs_update message with the note's id and the same update, to
\* every other live connection bound to the note and not to its sender.
C28_DuplicateRelayed ==
    [][\A s \in Sids :
         (YjsStep(s) /\ last'.outcome = "duplicate")
            => /\ note_versions' = note_versions
               /\ Cardinality(emitted') = 1
               /\ \A m \in emitted' :
                     /\ m.event = "yjs_update"
                     /\ m.note_id = last'.note_id
                     /\ m.update = last'.update
                     /\ bound_peers(last'.note_id, s) \subseteq m.to
                     /\ s \notin m.to]_vars

\* C28 witness: a duplicate has been relayed to another connection bound to
\* the note.
C28_Witness ==
    /\ last.op = "yjs_update" /\ last.outcome = "duplicate"
    /\ bound_peers(last.note_id, last.sid) # {}
    /\ \E m \in emitted : bound_peers(last.note_id, last.sid) \subseteq m.to

\* C29 (as claimed): a yjs_update with update p for a note whose log holds a
\* yjs_update row with p followed by a row inserted later that is not such a
\* row is not taken for a duplicate.
C29_ConsecutiveOnly ==
    [][(/\ last'.op = "yjs_update"
        /\ last'.note_id \in DOMAIN notes
        /\ \E v \in yjs_rows(versions_of(last'.note_id)) :
              row_update(v) = last'.update
        /\ ~TailHolds(last'.note_id, last'.update))
          => last'.outcome # "duplicate"]_vars

\* C30: when the commit of a yjs_update fails, the table is as before, the
\* sender and nobody else is sent an error, no yjs_update is emitted, and
\* the bindings, the memberships, the rooms and the connection stay as they
\* were.
C30_PersistFailure ==
    [][\A s \in Sids :
         (YjsStep(s) /\ last'.outcome = "db_error")
            => /\ note_versions' = note_versions
               /\ emitted' # {}
               /\ \A m \in emitted' : m.event = "error" /\ m.to = {s}
               /\ UNCHANGED <<sid_to_note, sid_to_user, active_users, rooms>>
               /\ conn'[s] = "connected"]_vars

\* C30 witness: the commit failed for an update of a bound connection with
\* another connection in the room of the note.
C30_Witness ==
    /\ last.op = "yjs_update" /\ last.outcome = "db_error"
    /\ DictGet(sid_to_note, last.sid, NoneVal) = last.note_id
    /\ room_skip_sid(last.note_id, last.sid) # {}

(* ============ properties: well-behaved clients, isolation, frames ====== *)

\* C31: with at most one join_note per connection, existing notes and no
\* principal on two live connections, whenever no join handler is suspended
\* active_users[d] is, for every note d, the set of principals of the live
\* connections bound to d.
C31_NoLostMembership ==
    pending = {} =>
        \A d \in NoteIds : DictGet(active_users, d, {}) = bound_principals(d)

\* C31 witness: a join handler has finished after the other connection,
\* which was bound to the same note, disconnected; the joiner is the note's
\* only member.
C31_Witness ==
    /\ last.op = "join_note_notify" /\ pending = {}
    /\ conn[last.sid] = "connected"
    /\ \E s \in Sids \ {last.sid} : conn[s] = "closed"
    /\ emitted # {} /\ \A m \in emitted : m.event = "user_joined" /\ m.to = {}
    /\ Cardinality(active_users[last.note_id]) = 1

\* C32: a connection comes into the room of note D only by a join_note of
\* its own that names D with a good token, and a yjs_update message for D is
\* addressed only to connections that are in the room of D.
C32_RoomIsolation ==
    [][/\ \A s \in Sids : \A d \in rooms'[s] \ rooms[s] :
             /\ JoinStep(s)
             /\ last'.note_id = d
             /\ last'.token \in GoodTokens
       /\ \A m \in emitted' :
             m.event = "yjs_update" => \A s \in m.to : m.note_id \in rooms[s]]_vars

\* C32 witness: an update for a note was accepted while the other connection
\* was live and in the room of another note only; it was not sent to it.
C32_Witness ==
    /\ YjsAccepted
    /\ \E s \in Sids \ {last.sid} :
          /\ conn[s] = "connected"
          /\ rooms[s] # {} /\ last.note_id \notin rooms[s]
          /\ \A m \in emitted : s \notin m.to

\* The update sequences a reconstruction over rows may return.
replays(rows) ==
    {extract_yjs_updates(o) : o \in order_by_timestamp_asc(rows)}

\* Every reconstruction over rows_after returns what every reconstruction
\* over rows_before returns.
SameReplay(rows_before, rows_after) ==
    \A a \in replays(rows_before) : \A b \in replays(rows_after) : a = b

\* C33 (as claimed): a restore changes neither the replay a join returns
\* for any note nor the snapshot of any version that existed before it.
C33_RestoreKeepsReplay ==
    [][(last'.op = "restore_note_version" /\ last'.outcome = "200")
          => /\ \A d \in DOMAIN notes :
                   SameReplay(join_rows(d), join_rows(d)')
             /\ \A v \in note_versions :
                   SameReplay(snapshot_rows(v.note_id, v),
                              snapshot_rows(v.note_id, v)')]_vars

\* C34 (as claimed): a yjs_update row is added only for a connection that
\* is bound to the row's note, and the row's user_id is the principal the
\* connection is bound with.
C34_OnlyBoundWriters ==
    [][\A s \in Sids :
         (YjsStep(s) /\ last'.outcome = "persisted")
            => /\ s \in DOMAIN sid_to_note /\ s \in DOMAIN sid_to_user
               /\ sid_to_note[s] = last'.note_id
               /\ \A r \in note_versions' \ note_versions :
                     r.user_id = sid_to_user[s] /\ r.user_id # "unknown"]_vars

\* C35: every row belongs to a note that exists.
C35_NoOrphanRows ==
    \A v \in note_versions : v.note_id \in DOMAIN notes

\* C35 witness: an update for a note that was deleted together with its
\* rows has been refused.
C35_Witness ==
    /\ last.op = "yjs_update" /\ last.outcome = "not_found"
    /\ last.note_id \in created \ DOMAIN notes
    /\ next_id > Cardinality(note_versions)

=============================================================================
